---- MODULE Spec2Model ----
(***************************************************************************)
(* Model of the qa-bot chat frontend: AuthProvider (contexts/AuthContext), *)
(* the App component (frontend/src/App.jsx), the useLocalStore hook and    *)
(* the request layer (frontend/src/services/api.js).                       *)
(*                                                                         *)
(* React semantics the model relies on:                                    *)
(*  - a handler runs with the values of the render it was created in: the  *)
(*    state constants AND the localStorage snapshot useLocalStore() read    *)
(*    in that render (the closure `cl` of every pending handler);          *)
(*  - the synchronous stretch of a handler between two awaits is one       *)
(*    action; state updates made in it are batched and followed by one     *)
(*    render, which is part of the action;                                 *)
(*  - writing localStorage does not render.                                *)
(***************************************************************************)
EXTENDS Integers, Sequences, FiniteSets, TLC

\* ---------------------------------------------------------------- bounds
MaxConvs == 2        \* session ids the backend issues
MaxSends == 2        \* handleSend calls that are accepted
MaxFiles == 2        \* files attached at a time
MaxInFlight == 2     \* requests of App handlers pending at a time
MaxEvents == 4       \* user events (clicks, submits) in a run

\* ---------------------------------------------------------------- values
Null == "null"
Undefined == "undefined"
Users == {"u1", "u2"}
Tokens == {"t_u1", "t_u2"}
FileNames == {"a.pdf"}
ConvIds == 1 .. MaxConvs
NoId == 0                       \* conversationId === null
Slots == 1 .. MaxSends

TokenOf(u) == IF u = "u1" THEN "t_u1" ELSE "t_u2"
UserOf(t) == IF t = "t_u1" THEN "u1" ELSE "u2"

DEFAULT_USER == "default_user"

Msg(role, s) == [role |-> role, s |-> s]
NoList == [has |-> FALSE, list |-> <<>>]
EmptyMsgs == [c \in ConvIds |-> NoList]
\* c.documentIds of a stored conversation: addConversation stores no such field
NoDocIds == [has |-> FALSE, ids |-> <<>>]
Conv(id) == [id |-> id, title |-> "Nuevo chat", documentIds |-> NoDocIds]
NewTitles == {"T"}               \* titles handleRenameConversation is given

VARIABLES
  \* AuthProvider state
  user, token, loading, effectDep, fetches, authReq,
  \* localStorage
  ls_token, ls_convs, ls_msgs,
  \* App state
  conversationId, messages, sending, uploading, error, files,
  \* last render
  screen, rendered,
  \* pending handlers
  sends, nSends, dels, opens, news, rens,
  \* App mount effect, backend
  listed, nextId,
  \* observation
  scopes, last, events, atLogout, recency, linked, opened,
  \* DocumentManager: props, state, pending requests, documents of the backend
  dm_conv, dm_dep, dm_docs, dm_loading, dm_error, dm_loads, dm_dels, dm_n, be_docs, dm_last,
  \* SidebarHistory: titles of its conversations prop, edit state, pending saves
  sb_titles, sb_editingId, sb_editTitle, sb_saves, sb_last,
  \* api.listConversations: the sessions of the response, the value returned
  li_sessions, li_result, li_status

authVars == <<user, token, loading, effectDep, fetches, authReq>>
lsVars == <<ls_token, ls_convs, ls_msgs>>
appVars == <<conversationId, messages, sending, uploading, error, files>>
taskVars == <<sends, nSends, dels, opens, news>>
mainVars ==
  <<authVars, lsVars, appVars, screen, rendered, taskVars, rens, listed, nextId, scopes,
    last, events, atLogout, recency, linked, opened>>
docVars ==
  <<dm_conv, dm_dep, dm_docs, dm_loading, dm_error, dm_loads, dm_dels, dm_n, be_docs, dm_last>>
sbVars == <<sb_titles, sb_editingId, sb_editTitle, sb_saves, sb_last>>
listVars == <<li_sessions, li_result, li_status>>
compVars == <<docVars, sbVars, listVars>>
vars == <<mainVars, compVars>>

\* ------------------------------------------------------- localStorage
\* a key is [present, v]; v is the parsed value, the default when absent
AbsentKey(default) == [present |-> FALSE, v |-> default]
PresentKey(val) == [present |-> TRUE, v |-> val]

\* useLocalStore lines 2-3: JSON.parse(getItem(..) || "[]" / "{}")
ReadStore(convs, msgs) == [conversations |-> convs.v, messagesByConv |-> msgs.v]

\* messagesByConv[id] || []
ListOf(mbc, id) == mbc[id].list

\* useLocalStore.addConversation
addConversation(conversations, id) == <<Conv(id)>> \o conversations

\* useLocalStore.setMessagesForConv
setMessagesForConv(mbc, id, msgs) == [mbc EXCEPT ![id] = [has |-> TRUE, list |-> msgs]]

\* useLocalStore.appendMessage
appendMessage(mbc, id, msg) ==
  [mbc EXCEPT ![id] = [has |-> TRUE, list |-> Append(ListOf(mbc, id), msg)]]

FilterConvs(conversations, id) ==
  LET keep == {i \in 1 .. Len(conversations) : conversations[i].id # id}
      F[i \in 0 .. Len(conversations)] ==
        IF i = 0 THEN <<>>
        ELSE IF i \in keep THEN Append(F[i - 1], conversations[i]) ELSE F[i - 1]
  IN F[Len(conversations)]

\* useLocalStore.deleteConversation: the two values written
deleteConversationConvs(conversations, id) == FilterConvs(conversations, id)

\* mutant: deleteConversation that forgets the message store
deleteConversationMsgsKept(mbc, id) == mbc

deleteConversationMsgs(mbc, id) == [mbc EXCEPT ![id] = NoList]

\* SidebarHistory lines 55-58: the count the badge of an entry shows, 0 for no badge
Badge(c) == IF c.documentIds.has /\ Len(c.documentIds.ids) > 0 THEN Len(c.documentIds.ids) ELSE 0

ConvIdsOf(conversations) == {conversations[i].id : i \in 1 .. Len(conversations)}

\* ------------------------------------------------------------- render
\* mutant: App without the `if (!user)` gate
ScreenNoUserCheck(ld, usr) == IF ld THEN "loading" ELSE "main"

\* App lines 29-47
Screen(ld, usr) ==
  IF ld THEN "loading" ELSE IF usr \in {Null, Undefined} THEN "auth" ELSE "main"

\* App line 58
canSend(snd, upl) == ~snd /\ ~upl

\* A render of App: the screen, and, when the main interface is rendered,
\* the useLocalStore() snapshot the handlers of this render close over.
Render(changed) ==
  /\ screen' = IF changed THEN Screen(loading', user') ELSE screen
  /\ rendered' = IF changed /\ Screen(loading', user') = "main"
                 THEN ReadStore(ls_convs', ls_msgs') ELSE rendered

\* passive effects are flushed before the next event is handled
EffectPending == effectDep # token \/ (screen = "main" /\ ~listed)

Truthy(x) == x \notin {Null, Undefined}

\* ------------------------------------------------------- observation
\* a request as api.js builds it: every endpoint is given user_id "default_user"
\* (or no user at all) and none carries the auth token
Req(kind, sid) == [kind |-> kind, user_id |-> DEFAULT_USER, session_id |-> sid]
NoReq == [kind |-> "none", user_id |-> Null, session_id |-> NoId]

\* what the last step did: the operation, its argument, the request it issued
\* resp: the response login / register received and the result it returned
NoResp == [at |-> Null, ud |-> Null, success |-> FALSE]
Did(op, id, req) == [op |-> op, id |-> id, req |-> req, resp |-> NoResp]

\* the user identities the requests of each logged-in user were scoped to
Scoped(req) ==
  IF user \in Users THEN [scopes EXCEPT ![user] = @ \cup {req.user_id}] ELSE scopes

InProgress == {s \in Slots : sends[s].pc \in {"creating", "uploading", "querying"}}

InFlight ==
  Cardinality(InProgress) + Cardinality(dels) + Cardinality(opens) + Cardinality(news)
  + Cardinality(rens)

\* ghost: the conversations, most recently updated (created or written to) first
Touch(rec, id) == <<id>> \o SelectSeq(rec, LAMBDA c : c # id)

\* ghost: what a step does to recency and to the documents linked per session
Observe(op, id) ==
  /\ recency' =
       CASE op = "newChatOk" -> Touch(recency, id)
         [] op = "createOk" -> Touch(recency, nextId + 1)
         [] op = "sendAccepted" /\ conversationId # NoId -> Touch(recency, conversationId)
         [] op = "queryOk" -> Touch(recency, sends[id].id)
         [] OTHER -> recency
  /\ linked' =
       IF op = "uploadOk" THEN [linked EXCEPT ![sends[id].id] = @ + 1] ELSE linked
  /\ opened' =
       CASE op = "open" -> id
         [] op \in {"createOk", "newChatOk", "deleteOk", "renameOk"} -> NoId
         [] OTHER -> opened

RenameOps == {"rename", "renameOk", "renameFail"}

StepWith(op, id, req, resp) ==
  /\ last' = [Did(op, id, req) EXCEPT !.resp = resp]
  /\ scopes' = IF req.kind = "none" THEN scopes ELSE Scoped(req)
  /\ events' = events
  /\ atLogout' = atLogout
  /\ Observe(op, id)
  /\ op \notin RenameOps => rens' = rens
  /\ UNCHANGED compVars

Step(op, id, req) == StepWith(op, id, req, NoResp)

\* a step the user takes
Event(op, id, req) ==
  /\ events < MaxEvents
  /\ last' = Did(op, id, req)
  /\ scopes' = IF req.kind = "none" THEN scopes ELSE Scoped(req)
  /\ events' = events + 1
  /\ atLogout' = IF op = "logout"
                 THEN [user |-> user, sessions |-> ConvIdsOf(rendered.conversations),
                       quiet |-> InFlight = 0]
                 ELSE atLogout
  /\ Observe(op, id)
  /\ op \notin RenameOps => rens' = rens
  /\ UNCHANGED compVars


\* -------------------------------------------------------------- Init
SendAt(pc) ==
  [pc |-> pc, id |-> NoId, files |-> <<>>, idx |-> 0,
   cl |-> ReadStore(AbsentKey(<<>>), AbsentKey(EmptyMsgs))]

MainInit ==
  /\ ls_token \in {Null, TokenOf("u1")}
  /\ ls_convs = AbsentKey(<<>>)
  /\ ls_msgs = AbsentKey(EmptyMsgs)
  /\ user = Null
  /\ loading = TRUE
  /\ token = ls_token
  /\ effectDep = "unrun"
  /\ fetches = {}
  /\ authReq = [kind |-> "none", u |-> Null]
  /\ conversationId = NoId
  /\ messages = <<>>
  /\ sending = FALSE
  /\ uploading = FALSE
  /\ error = Null
  /\ files = <<>>
  /\ screen = "loading"
  /\ rendered = ReadStore(ls_convs, ls_msgs)
  /\ sends = [s \in Slots |-> SendAt("idle")]
  /\ nSends = 0
  /\ dels = {}
  /\ opens = {}
  /\ news = {}
  /\ rens = {}
  /\ recency = <<>>
  /\ linked = [c \in ConvIds |-> 0]
  /\ opened = NoId
  /\ listed = FALSE
  /\ nextId = 0
  /\ scopes = [u \in Users |-> {}]
  /\ last = Did("init", NoId, NoReq)
  /\ events = 0
  /\ atLogout = [user |-> Null, sessions |-> {}, quiet |-> TRUE]

\* DocumentManager not mounted
DocsIdle ==
  /\ dm_conv = NoId
  /\ dm_dep = <<NoId>>
  /\ dm_docs = <<>>
  /\ dm_loading = FALSE
  /\ dm_error = Null
  /\ dm_loads = {}
  /\ dm_dels = {}
  /\ dm_n = 0
  /\ be_docs = [c \in ConvIds |-> {}]
  /\ dm_last = [op |-> "init", doc |-> 0]

\* SidebarHistory with no conversation being edited
SidebarIdle ==
  /\ sb_titles = [c \in ConvIds |-> <<>>]
  /\ sb_editingId = NoId
  /\ sb_editTitle = <<>>
  /\ sb_saves = {}
  /\ sb_last = [op |-> "init", id |-> NoId, called |-> FALSE, title |-> <<>>]

\* no call of api.listConversations observed
ListIdle ==
  /\ li_sessions = <<>>
  /\ li_result = <<>>
  /\ li_status = "idle"

Init == MainInit /\ DocsIdle /\ SidebarIdle /\ ListIdle

\* ------------------------------------------------------ AuthProvider
\* useEffect(..., [token])
\* mutant: the effect without its else branch
AuthEffectKeepsLoading ==
  /\ effectDep # token
  /\ effectDep' = token
  /\ IF Truthy(token)
     THEN /\ fetches' = fetches \cup {token}
          /\ loading' = loading
     ELSE /\ loading' = loading
          /\ fetches' = fetches
  /\ Step("authEffect", NoId, NoReq)
  /\ UNCHANGED <<user, token, authReq, lsVars, appVars, taskVars, listed, nextId>>
  /\ Render(loading' # loading)

AuthEffect ==
  /\ effectDep # token
  /\ effectDep' = token
  /\ IF Truthy(token)
     THEN /\ fetches' = fetches \cup {token}
          /\ loading' = loading
     ELSE /\ loading' = FALSE
          /\ fetches' = fetches
  /\ Step("authEffect", NoId, NoReq)
  /\ UNCHANGED <<user, token, authReq, lsVars, appVars, taskVars, listed, nextId>>
  /\ Render(loading' # loading)

\* mutant: logout that leaves the chat keys in localStorage
logoutKeepsChats ==
  /\ ls_token' = Null
  /\ UNCHANGED <<ls_convs, ls_msgs>>
  /\ token' = Null
  /\ user' = Null

\* AuthProvider.logout
logout ==
  /\ ls_token' = Null
  /\ ls_convs' = AbsentKey(<<>>)
  /\ ls_msgs' = AbsentKey(EmptyMsgs)
  /\ token' = Null
  /\ user' = Null

\* fetchCurrentUser after api.getCurrentUser() resolved
FetchOk(t) ==
  /\ ~EffectPending
  /\ t \in fetches /\ t \in Tokens
  /\ fetches' = fetches \ {t}
  /\ user' = UserOf(t)
  /\ loading' = FALSE
  /\ Step("fetchOk", NoId, NoReq)
  /\ UNCHANGED <<token, effectDep, authReq, lsVars, appVars, taskVars, listed, nextId>>
  /\ Render(user' # user \/ loading' # loading)

\* mutant: fetchCurrentUser whose catch does not log out
FetchFailKeepsSession(t) ==
  /\ ~EffectPending
  /\ t \in fetches
  /\ fetches' = fetches \ {t}
  /\ loading' = FALSE
  /\ Step("fetchFail", NoId, NoReq)
  /\ UNCHANGED <<user, token, effectDep, authReq, lsVars, appVars, taskVars, listed, nextId>>
  /\ Render(loading' # loading)

\* fetchCurrentUser after api.getCurrentUser() rejected
FetchFail(t) ==
  /\ ~EffectPending
  /\ t \in fetches
  /\ fetches' = fetches \ {t}
  /\ logout
  /\ loading' = FALSE
  /\ Step("fetchFail", NoId, NoReq)
  /\ UNCHANGED <<effectDep, authReq, appVars, taskVars, listed, nextId>>
  /\ Render(user' # user \/ token' # token \/ loading' # loading)

\* UserProfile "Cerrar Sesion" button
Logout ==
  /\ ~EffectPending
  /\ screen = "main"
  /\ logout
  /\ Event("logout", NoId, NoReq)
  /\ UNCHANGED <<loading, effectDep, fetches, authReq, appVars, taskVars, listed, nextId>>
  /\ Render(TRUE)

\* AuthPage: LoginForm / RegisterForm submit
AuthStart(kind, u) ==
  /\ ~EffectPending
  /\ screen = "auth"
  /\ authReq.kind = "none"
  /\ authReq' = [kind |-> kind, u |-> u]
  /\ Event(kind \o "Start", NoId, NoReq)
  /\ UNCHANGED <<user, token, loading, effectDep, fetches, lsVars, appVars, taskVars,
                 listed, nextId, screen, rendered>>

\* login storing whatever the response holds, as register does
LoginRespUnchecked(at, ud) ==
  /\ ~EffectPending
  /\ authReq.kind = "login"
  /\ at \in {TokenOf(authReq.u), Undefined}
  /\ ud \in {authReq.u, Undefined}
  /\ authReq' = [kind |-> "none", u |-> Null]
  /\ ls_token' = IF at = Undefined THEN "'undefined'" ELSE at
  /\ token' = at
  /\ user' = ud
  /\ StepWith("loginOk", NoId, NoReq, [at |-> at, ud |-> ud, success |-> TRUE])
  /\ UNCHANGED <<loading, effectDep, fetches, ls_convs, ls_msgs, appVars, taskVars,
                 listed, nextId>>
  /\ Render(user' # user \/ token' # token)

\* login after api.login() resolved with {access_token: at, user: ud}
LoginResp(at, ud) ==
  /\ ~EffectPending
  /\ authReq.kind = "login"
  /\ at \in {TokenOf(authReq.u), Undefined}
  /\ ud \in {authReq.u, Undefined}
  /\ authReq' = [kind |-> "none", u |-> Null]
  /\ IF Truthy(at) /\ Truthy(ud)
     THEN /\ ls_token' = at
          /\ token' = at
          /\ user' = ud
          /\ StepWith("loginOk", NoId, NoReq, [at |-> at, ud |-> ud, success |-> TRUE])
     ELSE /\ UNCHANGED <<ls_token, token, user>>
          /\ StepWith("loginFail", NoId, NoReq, [at |-> at, ud |-> ud, success |-> FALSE])
  /\ UNCHANGED <<loading, effectDep, fetches, ls_convs, ls_msgs, appVars, taskVars,
                 listed, nextId>>
  /\ Render(user' # user \/ token' # token)

\* localStorage.setItem(key, value) stores String(value)
StoredString(x) == IF x = Undefined THEN "'undefined'" ELSE x

\* register after api.register() resolved with {access_token: at, user: ud}
RegisterResp(at, ud) ==
  /\ ~EffectPending
  /\ authReq.kind = "register"
  /\ at \in {TokenOf(authReq.u), Undefined}
  /\ ud \in {authReq.u, Undefined}
  /\ authReq' = [kind |-> "none", u |-> Null]
  /\ ls_token' = StoredString(at)
  /\ token' = at
  /\ user' = ud
  /\ StepWith("registerOk", NoId, NoReq, [at |-> at, ud |-> ud, success |-> TRUE])
  /\ UNCHANGED <<loading, effectDep, fetches, ls_convs, ls_msgs, appVars, taskVars,
                 listed, nextId>>
  /\ Render(user' # user \/ token' # token)

\* login / register after the request rejected
AuthFail ==
  /\ ~EffectPending
  /\ authReq.kind # "none"
  /\ authReq' = [kind |-> "none", u |-> Null]
  /\ Step(authReq.kind \o "Fail", NoId, NoReq)
  /\ UNCHANGED <<user, token, loading, effectDep, fetches, lsVars, appVars, taskVars,
                 listed, nextId, screen, rendered>>

\* App useEffect(() => api.listConversations().catch(..), [])
MountEffect ==
  /\ effectDep = token
  /\ screen = "main" /\ ~listed
  /\ listed' = TRUE
  /\ Step("mountEffect", NoId, Req("sessions", NoId))
  /\ UNCHANGED <<authVars, lsVars, appVars, taskVars, nextId, screen, rendered>>

\* ---------------------------------------------------------------- App
UserEvent == ~EffectPending /\ screen = "main"

\* ChatInput.onPickFiles
PickFile(f) ==
  /\ UserEvent
  /\ Len(files) < MaxFiles
  /\ files' = Append(files, f)
  /\ Event("pickFile", NoId, NoReq)
  /\ UNCHANGED <<authVars, lsVars, conversationId, messages, sending, uploading, error,
                 taskVars, listed, nextId>>
  /\ Render(TRUE)

\* mutant: uploadFiles that drops the sessionId parameter
UploadFormUnlinked(sessionId) == Req("upload", NoId)

\* api.uploadFiles: the form of one file
UploadForm(sessionId) ==
  Req("upload", IF sessionId # NoId THEN sessionId ELSE NoId)

\* api.send with files: [] : the /api/query request
QueryReq(id) == Req("query", id)

\* handleSend lines 74-100, up to the first request after the id is known:
\* the values it gives to messages, chat.messages and the send's record
SendBody(s, id, cl, fs) ==
  /\ messages' = Append(messages, Msg("user", s))
  /\ ls_msgs' = PresentKey(appendMessage(cl.messagesByConv, id, Msg("user", s)))
  /\ IF Len(fs) > 0
     THEN /\ uploading' = TRUE
          /\ sending' = sending
          /\ sends' = [sends EXCEPT ![s] =
                         [pc |-> "uploading", id |-> id, files |-> fs, idx |-> 1, cl |-> cl]]
     ELSE /\ sending' = TRUE
          /\ uploading' = uploading
          /\ sends' = [sends EXCEPT ![s] =
                         [pc |-> "querying", id |-> id, files |-> fs, idx |-> 0, cl |-> cl]]

\* the request SendBody issues
SendBodyReq(id, fs) == IF Len(fs) > 0 THEN UploadForm(id) ELSE QueryReq(id)

\* ChatInput.send -> handleSend(text), text non-blank
HandleSend ==
  /\ UserEvent
  /\ canSend(sending, uploading)
  /\ nSends < MaxSends
  /\ InFlight < MaxInFlight
  /\ nSends' = nSends + 1
  /\ error' = Null
  /\ LET s == nSends + 1 IN
     IF conversationId # NoId
     THEN /\ SendBody(s, conversationId, rendered, files)
          /\ UNCHANGED <<conversationId, ls_convs>>
     ELSE /\ sends' = [sends EXCEPT ![s] =
                         [pc |-> "creating", id |-> NoId, files |-> files, idx |-> 0,
                          cl |-> rendered]]
          /\ UNCHANGED <<conversationId, ls_convs, ls_msgs, messages, sending, uploading>>
  /\ Event("sendAccepted", nSends + 1,
          IF conversationId # NoId THEN SendBodyReq(conversationId, files)
          ELSE Req("create", NoId))
  /\ UNCHANGED <<authVars, ls_token, files, dels, opens, news, listed, nextId>>
  /\ Render(conversationId # NoId \/ error # Null)

\* ChatInput.send / handleSend line 70: blank text, or sending / uploading
SendRejected(blank) ==
  /\ UserEvent
  /\ blank \/ ~canSend(sending, uploading)
  /\ Event("sendRejected", NoId, NoReq)
  /\ UNCHANGED <<authVars, lsVars, appVars, taskVars, listed, nextId, screen, rendered>>

\* ensureConversation after api.newConversation() resolved
CreateOk(s) ==
  /\ ~EffectPending
  /\ sends[s].pc = "creating"
  /\ nextId < MaxConvs
  /\ nextId' = nextId + 1
  /\ conversationId' = nextId'
  /\ ls_convs' = PresentKey(addConversation(sends[s].cl.conversations, nextId'))
  /\ SendBody(s, nextId', sends[s].cl, sends[s].files)
  /\ Step("createOk", s, SendBodyReq(nextId', sends[s].files))
  /\ UNCHANGED <<authVars, ls_token, error, files, nSends, dels, opens, news, listed>>
  /\ Render(TRUE)

\* ensureConversation after api.newConversation() rejected: handleSend rejects
CreateFail(s) ==
  /\ ~EffectPending
  /\ sends[s].pc = "creating"
  /\ sends' = [sends EXCEPT ![s] = SendAt("done")]
  /\ Step("createFail", s, NoReq)
  /\ UNCHANGED <<authVars, lsVars, appVars, nSends, dels, opens, news, listed, nextId, screen, rendered>>

\* api.uploadFiles: one file's request resolved
UploadOk(s) ==
  /\ ~EffectPending
  /\ sends[s].pc = "uploading"
  /\ IF sends[s].idx < Len(sends[s].files)
     THEN /\ sends' = [sends EXCEPT ![s].idx = @ + 1]
          /\ UNCHANGED <<messages, uploading, sending>>
     ELSE /\ messages' = Append(messages, Msg("system", s))
          /\ uploading' = FALSE
          /\ sending' = TRUE
          /\ sends' = [sends EXCEPT ![s].pc = "querying"]
  /\ Step("uploadOk", s, IF sends[s].idx < Len(sends[s].files)
                          THEN UploadForm(sends[s].id) ELSE QueryReq(sends[s].id))
  /\ UNCHANGED <<authVars, lsVars, conversationId, error, files, nSends, dels, opens, news,
                 listed, nextId>>
  /\ Render(sends[s].idx >= Len(sends[s].files))

\* api.uploadFiles: one file's request failed
UploadFail(s) ==
  /\ ~EffectPending
  /\ sends[s].pc = "uploading"
  /\ error' = "upload"
  /\ uploading' = FALSE
  /\ sends' = [sends EXCEPT ![s] = SendAt("done")]
  /\ Step("uploadFail", s, NoReq)
  /\ UNCHANGED <<authVars, lsVars, conversationId, messages, sending, files, nSends, dels,
                 opens, news, listed, nextId>>
  /\ Render(TRUE)

\* handleSend lines 103-106 and 111
QueryOk(s) ==
  /\ ~EffectPending
  /\ sends[s].pc = "querying"
  /\ messages' = Append(messages, Msg("assistant", s))
  /\ ls_msgs' = PresentKey(appendMessage(sends[s].cl.messagesByConv, sends[s].id,
                                         Msg("assistant", s)))
  /\ files' = <<>>
  /\ sending' = FALSE
  /\ sends' = [sends EXCEPT ![s] = SendAt("done")]
  /\ Step("queryOk", s, NoReq)
  /\ UNCHANGED <<authVars, ls_token, ls_convs, conversationId, uploading, error, nSends,
                 dels, opens, news, listed, nextId>>
  /\ Render(TRUE)

\* handleSend lines 107-111
QueryFail(s) ==
  /\ ~EffectPending
  /\ sends[s].pc = "querying"
  /\ error' = "send"
  /\ sending' = FALSE
  /\ sends' = [sends EXCEPT ![s] = SendAt("done")]
  /\ Step("queryFail", s, NoReq)
  /\ UNCHANGED <<authVars, lsVars, conversationId, messages, uploading, files, nSends,
                 dels, opens, news, listed, nextId>>
  /\ Render(TRUE)

\* handleNewChat up to its await
HandleNewChat ==
  /\ UserEvent
  /\ InFlight < MaxInFlight
  /\ news' = news \cup {rendered}
  /\ Event("newChat", NoId, Req("create", NoId))
  /\ UNCHANGED <<authVars, lsVars, appVars, sends, nSends, dels, opens, listed, nextId,
                 screen, rendered>>

\* handleNewChat after api.newConversation() resolved
NewChatOk(cl) ==
  /\ ~EffectPending
  /\ cl \in news
  /\ nextId < MaxConvs
  /\ news' = news \ {cl}
  /\ nextId' = nextId + 1
  /\ conversationId' = nextId'
  /\ ls_convs' = PresentKey(addConversation(cl.conversations, nextId'))
  /\ messages' = <<>>
  /\ ls_msgs' = PresentKey(setMessagesForConv(cl.messagesByConv, nextId', <<>>))
  /\ files' = <<>>
  /\ error' = Null
  /\ Step("newChatOk", nextId', NoReq)
  /\ UNCHANGED <<authVars, ls_token, sending, uploading, sends, nSends, dels, opens,
                 listed>>
  /\ Render(TRUE)

\* handleNewChat after api.newConversation() rejected
NewChatFail(cl) ==
  /\ ~EffectPending
  /\ cl \in news
  /\ news' = news \ {cl}
  /\ Step("newChatFail", NoId, NoReq)
  /\ UNCHANGED <<authVars, lsVars, appVars, sends, nSends, dels, opens, listed, nextId, screen, rendered>>

\* openConversation up to its await
OpenConversation(id) ==
  /\ UserEvent
  /\ id \in ConvIdsOf(rendered.conversations)
  /\ InFlight < MaxInFlight
  /\ conversationId' = id
  /\ opens' = opens \cup {[id |-> id, fallback |-> ListOf(rendered.messagesByConv, id)]}
  /\ Event("open", id, Req("messages", id))
  /\ UNCHANGED <<authVars, lsVars, messages, sending, uploading, error, files, sends,
                 nSends, dels, news, listed, nextId>>
  /\ Render(conversationId' # conversationId)

\* openConversation after api.getMessages() resolved with msgs
OpenOk(o, msgs) ==
  /\ ~EffectPending
  /\ o \in opens
  /\ opens' = opens \ {o}
  /\ messages' = msgs
  /\ error' = Null
  /\ Step("openOk", o.id, NoReq)
  /\ UNCHANGED <<authVars, lsVars, conversationId, sending, uploading, files, sends,
                 nSends, dels, news, listed, nextId>>
  /\ Render(TRUE)

\* openConversation after api.getMessages() rejected
OpenFail(o) ==
  /\ ~EffectPending
  /\ o \in opens
  /\ opens' = opens \ {o}
  /\ messages' = o.fallback
  /\ Step("openFail", o.id, NoReq)
  /\ UNCHANGED <<authVars, lsVars, conversationId, sending, uploading, error, files,
                 sends, nSends, dels, news, listed, nextId>>
  /\ Render(TRUE)

\* handleDeleteConversation: confirm() answered no
DeleteDeclined(id) ==
  /\ UserEvent
  /\ id \in ConvIdsOf(rendered.conversations)
  /\ Event("deleteDeclined", id, NoReq)
  /\ UNCHANGED <<authVars, lsVars, appVars, taskVars, listed, nextId, screen, rendered>>

\* handleDeleteConversation: confirm() answered yes, up to the await
DeleteConfirmed(id) ==
  /\ UserEvent
  /\ id \in ConvIdsOf(rendered.conversations)
  /\ InFlight < MaxInFlight
  /\ dels' = dels \cup {[id |-> id, conversationId |-> conversationId, cl |-> rendered]}
  /\ Event("deleteConfirmed", id, Req("delete", id))
  /\ UNCHANGED <<authVars, lsVars, appVars, sends, nSends, opens, news, listed, nextId,
                 screen, rendered>>

\* handleDeleteConversation line 147
DeletingActive(d) == d.id = d.conversationId

\* handleDeleteConversation after api.deleteConversation() resolved
DeleteOk(d) ==
  /\ ~EffectPending
  /\ d \in dels
  /\ dels' = dels \ {d}
  /\ ls_convs' = PresentKey(deleteConversationConvs(d.cl.conversations, d.id))
  /\ ls_msgs' = PresentKey(deleteConversationMsgs(d.cl.messagesByConv, d.id))
  /\ IF DeletingActive(d)
     THEN /\ conversationId' = NoId
          /\ messages' = <<>>
     ELSE UNCHANGED <<conversationId, messages>>
  /\ Step("deleteOk", d.id, NoReq)
  /\ UNCHANGED <<authVars, ls_token, sending, uploading, error, files, sends, nSends,
                 opens, news, listed, nextId>>
  /\ Render(DeletingActive(d))

\* mutant: handleDeleteConversation that deletes locally before the backend answers
DeleteFailOptimistic(d) ==
  /\ ~EffectPending
  /\ d \in dels
  /\ dels' = dels \ {d}
  /\ ls_convs' = PresentKey(deleteConversationConvs(d.cl.conversations, d.id))
  /\ ls_msgs' = PresentKey(deleteConversationMsgs(d.cl.messagesByConv, d.id))
  /\ error' = "delete"
  /\ Step("deleteFail", d.id, NoReq)
  /\ UNCHANGED <<authVars, ls_token, conversationId, messages, sending, uploading, files,
                 sends, nSends, opens, news, listed, nextId>>
  /\ Render(error' # error)

\* handleDeleteConversation after api.deleteConversation() rejected
DeleteFail(d) ==
  /\ ~EffectPending
  /\ d \in dels
  /\ dels' = dels \ {d}
  /\ error' = "delete"
  /\ Step("deleteFail", d.id, NoReq)
  /\ UNCHANGED <<authVars, lsVars, conversationId, messages, sending, uploading, files,
                 sends, nSends, opens, news, listed, nextId>>
  /\ Render(error' # error)

\* the list handleRenameConversation writes (App lines 163-165)
RenameMap(conversations, id, newTitle) ==
  [i \in 1 .. Len(conversations) |->
     IF conversations[i].id = id
     THEN [conversations[i] EXCEPT !.title = newTitle] ELSE conversations[i]]

\* handleRenameConversation up to its await
RenameStart(id, newTitle) ==
  /\ UserEvent
  /\ id \in ConvIdsOf(rendered.conversations)
  /\ InFlight < MaxInFlight
  /\ rens' = rens \cup {[id |-> id, title |-> newTitle,
                          conversations |-> rendered.conversations]}
  /\ Event("rename", id, Req("rename", id))
  /\ UNCHANGED <<authVars, lsVars, appVars, taskVars, listed, nextId, screen, rendered>>

\* window.location.reload(): the page starts again with the localStorage it has;
\* the handlers pending in the old page are gone
Reload ==
  /\ user' = Null
  /\ loading' = TRUE
  /\ token' = ls_token'
  /\ effectDep' = "unrun"
  /\ fetches' = {}
  /\ authReq' = [kind |-> "none", u |-> Null]
  /\ conversationId' = NoId
  /\ messages' = <<>>
  /\ sending' = FALSE
  /\ uploading' = FALSE
  /\ error' = Null
  /\ files' = <<>>
  /\ screen' = "loading"
  /\ rendered' = ReadStore(AbsentKey(<<>>), AbsentKey(EmptyMsgs))
  /\ sends' = [s \in Slots |-> IF sends[s].pc = "idle" THEN sends[s] ELSE SendAt("done")]
  /\ dels' = {}
  /\ opens' = {}
  /\ news' = {}
  /\ rens' = {}
  /\ listed' = FALSE

\* handleRenameConversation after api.renameConversation() resolved
RenameOk(r) ==
  /\ ~EffectPending
  /\ r \in rens
  /\ ls_convs' = PresentKey(RenameMap(r.conversations, r.id, r.title))
  /\ UNCHANGED <<ls_token, ls_msgs, nSends, nextId>>
  /\ Reload
  /\ Step("renameOk", r.id, NoReq)

\* handleRenameConversation after api.renameConversation() rejected
RenameFail(r) ==
  /\ ~EffectPending
  /\ r \in rens
  /\ rens' = rens \ {r}
  /\ error' = "rename"
  /\ Step("renameFail", r.id, NoReq)
  /\ UNCHANGED <<authVars, lsVars, conversationId, messages, sending, uploading, files,
                 taskVars, listed, nextId>>
  /\ Render(error' # error)

\* --------------------------------------------------------------- Next
(***************************************************************************)
(* DocumentManager                                                         *)
(***************************************************************************)
MaxLoads == 3                       \* session changes and delete clicks followed
MaxDocs == 2                        \* documents of the user
DocIds == 1 .. MaxDocs
NoDoc == 0

\* the array of the documents in S, in the order the backend lists them
RECURSIVE DocList(_)
DocList(S) ==
  IF S = {} THEN <<>>
  ELSE LET d == CHOOSE x \in S : \A y \in S : x = y \/ x < y
       IN <<d>> \o DocList(S \ {d})

\* data.documents || []
OrEmpty(x) == IF x = Undefined \/ x = Null THEN <<>> ELSE x

\* docs.filter(d => d.id !== documentId)
FilterDocs(docs, documentId) == SelectSeq(docs, LAMBDA d : d # documentId)

DocsOf(docs) == {docs[i] : i \in 1 .. Len(docs)}

\* what DocumentManager renders
DmView ==
  IF dm_conv = NoId THEN "select" ELSE IF dm_loading THEN "loading" ELSE "list"

\* the dependency list the effect last ran with, <<>> before the first run
DmEffectPending == dm_dep # <<dm_conv>>

DmDid(op, doc) == dm_last' = [op |-> op, doc |-> doc]

\* api.uploadFiles(files, sessionId) links each document to the session of its send
LinkedDocs == {[c \in ConvIds |-> {d \in DocIds : owner[d] = c}] : owner \in [DocIds -> ConvIds]}

\* mounted with the conversationId of App; documents linked to the sessions
InitDocs ==
  /\ MainInit
  /\ ls_token = Null
  /\ dm_conv \in {NoId} \cup ConvIds
  /\ dm_dep = <<>>
  /\ dm_docs = <<>>
  /\ dm_loading = FALSE
  /\ dm_error = Null
  /\ dm_loads = {}
  /\ dm_dels = {}
  /\ dm_n = 0
  /\ be_docs \in LinkedDocs
  /\ dm_last = [op |-> "init", doc |-> 0]
  /\ SidebarIdle
  /\ ListIdle

\* App renders DocumentManager with another conversationId
DmProps(c) ==
  /\ ~DmEffectPending
  /\ c # dm_conv
  /\ dm_n < MaxLoads
  /\ dm_conv' = c
  /\ dm_n' = dm_n + 1
  /\ DmDid("props", NoDoc)
  /\ UNCHANGED <<dm_dep, dm_docs, dm_loading, dm_error, dm_loads, dm_dels, be_docs>>
  /\ UNCHANGED <<mainVars, sbVars, listVars>>

\* useEffect(..., [conversationId]): loadDocuments up to its await
DmEffect ==
  /\ DmEffectPending
  /\ dm_dep' = <<dm_conv>>
  /\ IF dm_conv # NoId
     THEN /\ dm_loading' = TRUE
          /\ dm_error' = Null
          /\ dm_loads' = dm_loads \cup {[n |-> dm_n, conv |-> dm_conv]}
     ELSE UNCHANGED <<dm_loading, dm_error, dm_loads>>
  /\ DmDid("effect", NoDoc)
  /\ UNCHANGED <<dm_conv, dm_docs, dm_dels, dm_n, be_docs>>
  /\ UNCHANGED <<mainVars, sbVars, listVars>>

\* loadDocuments after api.getSessionDocuments(l.conv) resolved
LoadOk(l) ==
  /\ ~DmEffectPending
  /\ l \in dm_loads
  /\ dm_loads' = dm_loads \ {l}
  /\ dm_docs' = OrEmpty(DocList(be_docs[l.conv]))
  /\ dm_loading' = FALSE
  /\ DmDid("loadOk", NoDoc)
  /\ UNCHANGED <<dm_conv, dm_dep, dm_error, dm_dels, dm_n, be_docs>>
  /\ UNCHANGED <<mainVars, sbVars, listVars>>

\* loadDocuments after api.getSessionDocuments rejected
LoadFail(l) ==
  /\ ~DmEffectPending
  /\ l \in dm_loads
  /\ dm_loads' = dm_loads \ {l}
  /\ dm_error' = "load"
  /\ dm_loading' = FALSE
  /\ DmDid("loadFail", NoDoc)
  /\ UNCHANGED <<dm_conv, dm_dep, dm_docs, dm_dels, dm_n, be_docs>>
  /\ UNCHANGED <<mainVars, sbVars, listVars>>

\* the delete button of a listed document
DocDeleteClick(d) ==
  /\ ~DmEffectPending
  /\ dm_n < MaxLoads
  /\ dm_n' = dm_n + 1
  /\ DmView = "list"
  /\ d \in DocsOf(dm_docs)
  /\ d \notin dm_dels

\* handleDeleteDocument, confirm() answered no
DocDeleteDeclined(d) ==
  /\ DocDeleteClick(d)
  /\ DmDid("docDeleteDeclined", d)
  /\ UNCHANGED <<dm_conv, dm_dep, dm_docs, dm_loading, dm_error, dm_loads, dm_dels, be_docs>>
  /\ UNCHANGED <<mainVars, sbVars, listVars>>

\* handleDeleteDocument, confirm() answered yes, up to its await
DocDeleteConfirmed(d) ==
  /\ DocDeleteClick(d)
  /\ dm_dels' = dm_dels \cup {d}
  /\ DmDid("docDeleteConfirmed", d)
  /\ UNCHANGED <<dm_conv, dm_dep, dm_docs, dm_loading, dm_error, dm_loads, be_docs>>
  /\ UNCHANGED <<mainVars, sbVars, listVars>>

\* handleDeleteDocument after api.deleteDocument(d) resolved
DocDeleteOk(d) ==
  /\ ~DmEffectPending
  /\ d \in dm_dels
  /\ dm_dels' = dm_dels \ {d}
  /\ be_docs' = [c \in ConvIds |-> be_docs[c] \ {d}]
  /\ dm_docs' = FilterDocs(dm_docs, d)
  /\ DmDid("docDeleteOk", d)
  /\ UNCHANGED <<dm_conv, dm_dep, dm_loading, dm_error, dm_loads, dm_n>>
  /\ UNCHANGED <<mainVars, sbVars, listVars>>

\* mutant: the document leaves the list although the DELETE failed
DocDeleteFailOptimistic(d) ==
  /\ ~DmEffectPending
  /\ d \in dm_dels
  /\ dm_dels' = dm_dels \ {d}
  /\ dm_docs' = FilterDocs(dm_docs, d)
  /\ dm_error' = "delete"
  /\ DmDid("docDeleteFail", d)
  /\ UNCHANGED <<dm_conv, dm_dep, dm_loading, dm_loads, dm_n, be_docs>>
  /\ UNCHANGED <<mainVars, sbVars, listVars>>

\* handleDeleteDocument after api.deleteDocument(d) rejected
DocDeleteFail(d) ==
  /\ ~DmEffectPending
  /\ d \in dm_dels
  /\ dm_dels' = dm_dels \ {d}
  /\ dm_error' = "delete"
  /\ DmDid("docDeleteFail", d)
  /\ UNCHANGED <<dm_conv, dm_dep, dm_docs, dm_loading, dm_loads, dm_n, be_docs>>
  /\ UNCHANGED <<mainVars, sbVars, listVars>>

NextDocs ==
  \/ \E c \in {NoId} \cup ConvIds : DmProps(c)
  \/ DmEffect
  \/ \E l \in dm_loads : LoadOk(l)
  \/ \E l \in dm_loads : LoadFail(l)
  \/ \E d \in DocIds : DocDeleteDeclined(d)
  \/ \E d \in DocIds : DocDeleteConfirmed(d)
  \/ \E d \in DocIds : DocDeleteOk(d)
  \/ \E d \in DocIds : DocDeleteFail(d)

SpecDocs == InitDocs /\ [][NextDocs]_vars

(***************************************************************************)
(* SidebarHistory, inline rename                                           *)
(***************************************************************************)
MaxTitleLen == 2                    \* characters of a title
Chars == {"a", " "}
Titles == UNION {[1 .. n -> Chars] : n \in 0 .. MaxTitleLen}

\* String.prototype.trim
RECURSIVE Trim(_)
Trim(t) ==
  IF t = <<>> THEN t
  ELSE IF Head(t) = " " THEN Trim(Tail(t))
  ELSE IF t[Len(t)] = " " THEN Trim(SubSeq(t, 1, Len(t) - 1))
  ELSE t

SbDid(op, id, called, title) ==
  sb_last' = [op |-> op, id |-> id, called |-> called, title |-> title]

\* the sidebar with the conversations App passes
InitSidebar ==
  /\ MainInit
  /\ ls_token = Null
  /\ DocsIdle
  /\ ListIdle
  /\ sb_titles \in [ConvIds -> Titles \ {<<>>}]
  /\ sb_editingId = NoId
  /\ sb_editTitle = <<>>
  /\ sb_saves = {}
  /\ sb_last = [op |-> "init", id |-> NoId, called |-> FALSE, title |-> <<>>]

\* handleStartEdit(c)
HandleStartEdit(id) ==
  /\ sb_editingId # id
  /\ sb_editingId' = id
  /\ sb_editTitle' = sb_titles[id]
  /\ SbDid("startEdit", id, FALSE, <<>>)
  /\ UNCHANGED <<sb_titles, sb_saves>>
  /\ UNCHANGED <<mainVars, docVars, listVars>>

\* the input's onChange
EditChange(t) ==
  /\ sb_editingId # NoId
  /\ t # sb_editTitle
  /\ sb_editTitle' = t
  /\ SbDid("change", sb_editingId, FALSE, <<>>)
  /\ UNCHANGED <<sb_titles, sb_editingId, sb_saves>>
  /\ UNCHANGED <<mainVars, docVars, listVars>>

\* handleSaveEdit(c.id) from Enter or onBlur, up to its await
HandleSaveEdit(op) ==
  /\ sb_editingId # NoId
  /\ Cardinality(sb_saves) < MaxInFlight
  /\ IF Trim(sb_editTitle) # <<>> /\ sb_editTitle # sb_titles[sb_editingId]
     THEN /\ sb_saves' = sb_saves \cup {[id |-> sb_editingId, title |-> Trim(sb_editTitle)]}
          /\ SbDid(op, sb_editingId, TRUE, Trim(sb_editTitle))
          /\ UNCHANGED <<sb_editingId, sb_editTitle>>
     ELSE /\ sb_editingId' = NoId
          /\ sb_editTitle' = <<>>
          /\ SbDid(op, sb_editingId, FALSE, <<>>)
          /\ UNCHANGED sb_saves
  /\ UNCHANGED sb_titles
  /\ UNCHANGED <<mainVars, docVars, listVars>>

\* handleSaveEdit after onRename resolved; renamed: the PATCH succeeded
SaveEditDone(r, renamed) ==
  /\ r \in sb_saves
  /\ sb_saves' = sb_saves \ {r}
  /\ sb_titles' = IF renamed THEN [sb_titles EXCEPT ![r.id] = r.title] ELSE sb_titles
  /\ sb_editingId' = NoId
  /\ sb_editTitle' = <<>>
  /\ SbDid("saveDone", r.id, FALSE, <<>>)
  /\ UNCHANGED <<mainVars, docVars, listVars>>

\* handleCancelEdit from Escape
HandleCancelEdit ==
  /\ sb_editingId # NoId
  /\ sb_editingId' = NoId
  /\ sb_editTitle' = <<>>
  /\ SbDid("escape", sb_editingId, FALSE, <<>>)
  /\ UNCHANGED <<sb_titles, sb_saves>>
  /\ UNCHANGED <<mainVars, docVars, listVars>>

NextSidebar ==
  \/ \E id \in ConvIds : HandleStartEdit(id)
  \/ \E t \in Titles : EditChange(t)
  \/ HandleSaveEdit("enter")
  \/ HandleSaveEdit("blur")
  \/ \E r \in sb_saves, renamed \in BOOLEAN : SaveEditDone(r, renamed)
  \/ HandleCancelEdit

SpecSidebar == InitSidebar /\ [][NextSidebar]_vars

(***************************************************************************)
(* api.listConversations                                                   *)
(***************************************************************************)
MaxSessions == 2                    \* sessions in a response
MaxIdLen == 9                       \* characters of a session id
IdPrefixLen == 8                    \* substring(0, 8)

IdAlphabet == <<"a", "b", "c", "d", "e", "f", "g", "h", "i", "j", "k", "l">>
SessionIds == {SubSeq(IdAlphabet, 1, n) : n \in 0 .. MaxIdLen}

\* a field of a session of the response: missing, or present with value v
Missing == [has |-> FALSE, v |-> <<>>]
Field(v) == [has |-> TRUE, v |-> v]

BackendSessions ==
  [session_id : SessionIds,
   title : {Missing, Field(<<>>), Field(<<"T">>)},
   document_ids : {Missing, Field(<<>>), Field(<<1>>)}]

\* str.substring(0, n)
Substring0(str, n) == SubSeq(str, 1, IF Len(str) < n THEN Len(str) ELSE n)

\* s.title || fallback: a missing field and the empty string are falsy
TitleOr(f, fallback) == IF f.has /\ f.v # <<>> THEN f.v ELSE fallback

\* s.document_ids || []: an array, even an empty one, is truthy
ListOr(f, fallback) == IF f.has THEN f.v ELSE fallback

SessionWord == <<"S", "e", "s", "s", "i", "o", "n", " ">>

\* mutant: the fallback title holds the whole session id
MapSessionWholeId(s) ==
  [conversationId |-> s.session_id,
   title |-> TitleOr(s.title, SessionWord \o s.session_id),
   documentIds |-> ListOr(s.document_ids, <<>>)]

\* the arrow function given to data.sessions.map
MapSession(s) ==
  [conversationId |-> s.session_id,
   title |-> TitleOr(s.title, SessionWord \o Substring0(s.session_id, IdPrefixLen)),
   documentIds |-> ListOr(s.document_ids, <<>>)]

\* the response api.listConversations is about to receive
InitList ==
  /\ MainInit
  /\ ls_token = Null
  /\ DocsIdle
  /\ SidebarIdle
  /\ li_sessions \in UNION {[1 .. n -> BackendSessions] : n \in 0 .. MaxSessions}
  /\ li_result = <<>>
  /\ li_status = "idle"

\* listConversations with a 2xx response
ListConversationsOk ==
  /\ li_status = "idle"
  /\ li_result' = [i \in 1 .. Len(li_sessions) |-> MapSession(li_sessions[i])]
  /\ li_status' = "returned"
  /\ UNCHANGED li_sessions
  /\ UNCHANGED <<mainVars, docVars, sbVars>>

\* listConversations with another response: throws
ListConversationsFail ==
  /\ li_status = "idle"
  /\ li_status' = "thrown"
  /\ UNCHANGED <<li_sessions, li_result>>
  /\ UNCHANGED <<mainVars, docVars, sbVars>>

NextList ==
  \/ ListConversationsOk
  \/ ListConversationsFail

SpecList == InitList /\ [][NextList]_vars

Next ==
  \/ AuthEffect
  \/ MountEffect
  \/ \E t \in Tokens : FetchOk(t)
  \/ \E t \in fetches : FetchFail(t)
  \/ Logout
  \/ \E k \in {"login", "register"}, u \in Users : AuthStart(k, u)
  \/ \E at \in Tokens \cup {Undefined}, ud \in Users \cup {Undefined} : LoginResp(at, ud)
  \/ \E at \in Tokens \cup {Undefined}, ud \in Users \cup {Undefined} : RegisterResp(at, ud)
  \/ AuthFail
  \/ \E f \in FileNames : PickFile(f)
  \/ HandleSend
  \/ \E b \in BOOLEAN : SendRejected(b)
  \/ \E s \in Slots : CreateOk(s)
  \/ \E s \in Slots : CreateFail(s)
  \/ \E s \in Slots : UploadOk(s)
  \/ \E s \in Slots : UploadFail(s)
  \/ \E s \in Slots : QueryOk(s)
  \/ \E s \in Slots : QueryFail(s)
  \/ HandleNewChat
  \/ \E cl \in news : NewChatOk(cl)
  \/ \E cl \in news : NewChatFail(cl)
  \/ \E id \in ConvIds : OpenConversation(id)
  \/ \E o \in opens, m \in {<<>>, <<Msg("backend", 0)>>} : OpenOk(o, m)
  \/ \E o \in opens : OpenFail(o)
  \/ \E id \in ConvIds : DeleteDeclined(id)
  \/ \E id \in ConvIds : DeleteConfirmed(id)
  \/ \E d \in dels : DeleteOk(d)
  \/ \E d \in dels : DeleteFail(d)
  \/ \E id \in ConvIds, t \in NewTitles : RenameStart(id, t)
  \/ \E r \in rens : RenameOk(r)
  \/ \E r \in rens : RenameFail(r)

Spec == Init /\ [][Next]_vars

\* React runs the effects of a committed render; a request sent is answered
Settle == \E t \in fetches : FetchOk(t) \/ FetchFail(t)

SpecLive ==
  /\ Init
  /\ [][Next]_vars
  /\ WF_vars(AuthEffect)
  /\ WF_vars(MountEffect)
  /\ WF_vars(Settle)

\* ===================================================================
\* Properties
\* ===================================================================
progVars == <<authVars, lsVars, appVars, taskVars, rens, listed, nextId, screen, rendered>>

\* C1: a confirmed deletion whose DELETE succeeded leaves conversation id out
\* of the stored conversation list and without a stored message list; a
\* declined confirmation issues no request and changes nothing.
C1_DeleteRemovesFromLocalStore ==
  [][ /\ last'.op = "deleteOk" =>
           /\ ls_convs'.present /\ ls_msgs'.present
           /\ last'.id \notin ConvIdsOf(ls_convs'.v)
           /\ ls_msgs'.v[last'.id] = NoList
      /\ last'.op = "deleteDeclined" =>
           /\ last'.req = NoReq
           /\ UNCHANGED progVars ]_vars

C1_Witness ==
  /\ last.op = "deleteOk"
  /\ last.id \in ConvIdsOf(rendered.conversations)
  /\ last.id \notin ConvIdsOf(ls_convs.v)

\* C2: a failed DELETE leaves the stored conversations and messages, the
\* active conversation and the displayed messages as they were, and sets an
\* error message.
C2_DeleteFailureKeepsEverything ==
  [][ last'.op = "deleteFail" =>
        /\ UNCHANGED <<ls_convs, ls_msgs, conversationId, messages>>
        /\ error' # Null ]_vars

C2_Witness ==
  /\ last.op = "deleteFail"
  /\ last.id \in ConvIdsOf(ls_convs.v)
  /\ error = "delete"

\* C3: after a successful deletion the view is cleared exactly when the
\* deleted chat is the one active at that moment; otherwise the active
\* conversation and the displayed messages stay as they are.
C3_ViewClearedIffActiveDeleted ==
  [][ last'.op = "deleteOk" =>
        IF last'.id = conversationId
        THEN conversationId' = NoId /\ messages' = <<>>
        ELSE UNCHANGED <<conversationId, messages>> ]_vars

C5_LogoutClearsEverything ==
  last.op \in {"logout", "fetchFail"} =>
    /\ ls_token = Null
    /\ ~ls_convs.present
    /\ ~ls_msgs.present
    /\ user = Null
    /\ token = Null

C5_Witness ==
  /\ last.op = "logout"
  /\ atLogout.sessions # {}
  /\ ~ls_convs.present

\* C6: when fetching the current user for a stored token fails, the stored
\* token is removed, user and token are null and the auth page is shown.
C6_InvalidTokenLogsOut ==
  last.op = "fetchFail" =>
    /\ ls_token = Null
    /\ user = Null
    /\ token = Null
    /\ ~loading
    /\ screen = "auth"

C6_Witness ==
  /\ last.op = "fetchFail"
  /\ events = 0
  /\ screen = "auth"

\* C7: the main chat interface is rendered only when loading is false and
\* user is set; when loading is false and user is not set the auth page is
\* rendered.
C7_MainOnlyWhenAuthenticated ==
  /\ screen = "main" => ~loading /\ Truthy(user)
  /\ (~loading /\ ~Truthy(user)) => screen = "auth"
  /\ loading => screen = "loading"

C7_Witness ==
  /\ screen = "main"
  /\ last.op = "loginOk"

\* C8: a user who had chat sessions, logs out and logs in again sees in the
\* sidebar the sessions they had before the logout.
C8_SessionsBackAfterRelogin ==
  (/\ last.op = "loginOk"
   /\ user = atLogout.user
   /\ atLogout.quiet)
  => atLogout.sessions \subseteq ConvIdsOf(rendered.conversations)

\* C9: the requests issued for two different logged-in users are scoped to
\* different user identities.
C9_RequestsScopedPerUser ==
  \A u1 \in Users, u2 \in Users : u1 # u2 => scopes[u1] \cap scopes[u2] = {}

\* C10: at most one handleSend is in progress at a time.
C10_OneSendAtATime == Cardinality(InProgress) <= 1

\* C13: a successful PATCH sets the stored title of conversation id to
\* newTitle and leaves every other stored conversation as it was; until then,
\* and when the PATCH fails, the stored conversations are unchanged, and a
\* failure sets an error message.
C13_RenameTouchesOnlyItsConversation ==
  [][ /\ last'.op = "renameOk" =>
           /\ \A i \in 1 .. Len(ls_convs'.v) :
                ls_convs'.v[i].id = last'.id => ls_convs'.v[i].title \in NewTitles
           /\ FilterConvs(ls_convs'.v, last'.id) = FilterConvs(ls_convs.v, last'.id)
      /\ last'.op = "rename" => ls_convs' = ls_convs
      /\ last'.op = "renameFail" => ls_convs' = ls_convs /\ error' # Null ]_vars

\* C15: the sidebar lists the conversations most recently updated first.
PosIn(seq, c) == CHOOSE k \in 1 .. Len(seq) : seq[k] = c

C15_SidebarSortedByLastUpdate ==
  screen = "main" =>
    \A i \in 1 .. Len(rendered.conversations), j \in 1 .. Len(rendered.conversations) :
      i < j => PosIn(recency, rendered.conversations[i].id)
               < PosIn(recency, rendered.conversations[j].id)

\* C16: once the files of a send are uploaded, the sidebar entry of that
\* session shows a badge with the number of documents linked to the session.
C16_BadgeCountsLinkedDocuments ==
  (last.op = "uploadOk" /\ last.req.kind = "query") =>
    \E i \in 1 .. Len(rendered.conversations) :
      /\ rendered.conversations[i].id = sends[last.id].id
      /\ Badge(rendered.conversations[i]) = linked[sends[last.id].id]

\* C18: login returns success and stores token and user exactly when the
\* response holds both access_token and user; otherwise (request failed or a
\* field missing) it returns failure and stores nothing.
C18_LoginStoresOnlyCompleteResponse ==
  [][ last'.op \in {"loginOk", "loginFail"} =>
        /\ last'.resp.success <=> (last'.resp.at \in Tokens /\ last'.resp.ud \in Users)
        /\ last'.resp.success <=> last'.op = "loginOk"
        /\ last'.resp.success =>
             /\ ls_token' = last'.resp.at
             /\ token' = last'.resp.at
             /\ user' = last'.resp.ud
        /\ ~last'.resp.success => UNCHANGED <<ls_token, token, user>> ]_vars

C18_Witness ==
  /\ last.op = "loginFail"
  /\ last.resp.at \in Tokens
  /\ last.resp.ud = Undefined
  /\ ls_token = Null /\ user = Null

\* C19: after a registration that returned success the user is set and a
\* usable access token is stored under auth_token; a failed registration
\* stores nothing.
C19_RegisterSuccessLogsIn ==
  [][ /\ (last'.op = "registerOk" /\ last'.resp.success) =>
           user' \in Users /\ ls_token' \in Tokens
      /\ last'.op = "registerFail" =>
           ~last'.resp.success /\ UNCHANGED <<ls_token, token, user>> ]_vars

\* C20: after a send that completed, the stored messages of its conversation
\* end with the user message followed by the assistant reply, and every list
\* stored before is still a prefix of what is stored.
IsPrefix(a, b) == Len(a) <= Len(b) /\ SubSeq(b, 1, Len(a)) = a

C20_StoreEndsWithQuestionAndReply ==
  [][ last'.op = "queryOk" =>
        LET s == last'.id
            id == sends[s].id
            new == ls_msgs'.v[id].list
        IN /\ Len(new) >= 2
           /\ new[Len(new) - 1] = Msg("user", s)
           /\ new[Len(new)] = Msg("assistant", s)
           /\ \A c \in ConvIds : IsPrefix(ls_msgs.v[c].list, ls_msgs'.v[c].list) ]_vars

\* C11: once every pending load of documents has settled without error, the
\* documents shown are those of the current conversationId, in whatever order
\* the responses arrived.
C11_ShownDocumentsOfCurrentConversation ==
  (dm_loads = {} /\ ~DmEffectPending /\ dm_conv # NoId /\ dm_error = Null) =>
    /\ DmView = "list"
    /\ dm_docs = DocList(be_docs[dm_conv])

\* C12: a document leaves the displayed list only when its DELETE, sent after
\* the user confirmed, succeeded; declining sends no request and changes
\* nothing; a failed DELETE leaves the list unchanged and sets the error that
\* the list view shows.
C12_DocumentRemovedOnlyAfterSuccessfulDelete ==
  [][ /\ dm_last'.op = "docDeleteDeclined" =>
           UNCHANGED <<dm_docs, dm_dels, dm_error, be_docs>>
      /\ dm_last'.op = "docDeleteConfirmed" =>
           /\ dm_docs' = dm_docs
           /\ dm_dels' = dm_dels \cup {dm_last'.doc}
      /\ dm_last'.op = "docDeleteOk" =>
           /\ dm_last'.doc \in dm_dels
           /\ dm_docs' = FilterDocs(dm_docs, dm_last'.doc)
           /\ dm_last'.doc \notin DocsOf(dm_docs')
      /\ dm_last'.op = "docDeleteFail" =>
           /\ dm_docs' = dm_docs
           /\ dm_error' # Null
      /\ DocsOf(dm_docs') # DocsOf(dm_docs) => dm_last'.op \in {"loadOk", "docDeleteOk"} ]_vars

C12_Witness ==
  /\ dm_last.op = "docDeleteFail"
  /\ dm_last.doc \in DocsOf(dm_docs)
  /\ dm_error = "delete"
  /\ DmView = "list"

\* C14: Escape leaves edit mode without calling onRename; Enter with a
\* non-blank text different from the current title calls onRename with the
\* trimmed text and edit mode is left when the call returns; no call ever
\* submits a blank title or the title the conversation already has.
C14_InlineRenameSubmitsOnlyChangedTitles ==
  [][ /\ sb_last'.op = "escape" =>
           sb_editingId' = NoId /\ ~sb_last'.called /\ sb_saves' = sb_saves
      /\ sb_last'.op = "enter" =>
           IF Trim(sb_editTitle) # <<>> /\ sb_editTitle # sb_titles[sb_editingId]
           THEN sb_last'.called /\ sb_last'.title = Trim(sb_editTitle)
           ELSE ~sb_last'.called /\ sb_editingId' = NoId
      /\ sb_last'.op = "saveDone" => sb_editingId' = NoId
      /\ sb_last'.called =>
           /\ sb_last'.title # <<>>
           /\ sb_last'.title # sb_titles[sb_last'.id] ]_vars

\* C17: listConversations returns one entry per backend session, in order;
\* its title is the session's title when that is a non-empty string and
\* otherwise "Session " followed by the first 8 characters of the session id;
\* its documentIds is document_ids, or the empty list when the field is missing.
FirstChars(str, n) == [i \in 1 .. (IF Len(str) < n THEN Len(str) ELSE n) |-> str[i]]

C17_ListConversationsMapping ==
  li_status = "returned" =>
    /\ Len(li_result) = Len(li_sessions)
    /\ \A i \in 1 .. Len(li_sessions) :
         LET s == li_sessions[i]
             e == li_result[i]
         IN /\ e.conversationId = s.session_id
            /\ (s.title.has /\ Len(s.title.v) > 0) => e.title = s.title.v
            /\ ~(s.title.has /\ Len(s.title.v) > 0) =>
                 e.title = SessionWord \o FirstChars(s.session_id, 8)
            /\ s.document_ids.has => e.documentIds = s.document_ids.v
            /\ ~s.document_ids.has => e.documentIds = <<>>

C17_Witness ==
  /\ li_status = "returned"
  /\ \E i \in 1 .. Len(li_sessions) :
       /\ Len(li_sessions[i].session_id) > 8
       /\ li_sessions[i].title = Field(<<>>)
       /\ ~li_sessions[i].document_ids.has
       /\ Len(li_result[i].title) = 16
       /\ li_result[i].documentIds = <<>>

\* C21: the assistant reply is appended to the displayed messages only while
\* the conversation it answers is the active one.
C21_ReplyShownOnlyInItsConversation ==
  [][ (last'.op = "queryOk" /\ messages' # messages) =>
        conversationId' = sends[last'.id].id ]_vars

\* C22: openConversation was called last for chat B and nothing else changed
\* the active conversation since; when the last pending getMessages settles,
\* the active conversation is B and the messages just displayed are B's.
C22_LastOpenedConversationWins ==
  (opened # NoId /\ opens = {} /\ last.op \in {"openOk", "openFail"}) =>
    /\ conversationId = opened
    /\ last.id = opened

\* C23: whenever the auth loading flag is true it eventually becomes false:
\* in the effect itself when no token is stored, and when the current-user
\* request settles when one is stored, and not before; once false it stays
\* false until the page is loaded again.
C23_LoadingEndsAndStaysFalse ==
  /\ loading ~> ~loading
  /\ [][ /\ (last'.op = "authEffect" /\ ~Truthy(token)) => ~loading'
         /\ last'.op \in {"fetchOk", "fetchFail"} => ~loading'
         /\ (loading /\ ~loading') => last'.op \in {"authEffect", "fetchOk", "fetchFail"}
         /\ (~loading /\ loading') => last'.op = "renameOk" ]_vars

C23_Witness ==
  /\ last.op = "fetchOk"
  /\ ~loading
  /\ user \in Users
  /\ screen = "main"
====
